---- MODULE Spec2Model ----
(***************************************************************************)
(* Health risk prediction API: the rule-based vital sign analyzer, the     *)
(* recommendation policy, the risk model pipeline (predict_risk), the      *)
(* training pipeline (train_model) and the POST /prediction handler.       *)
(*                                                                         *)
(* Units.  SystolicBP, DiastolicBP, HeartRate and Age are integers.  BS    *)
(* and BodyTemp are floats with one decimal in the source (3.9, 37.5);     *)
(* they are held here in tenths (39, 375), so that every comparison of the *)
(* source is the same comparison on integers.                              *)
(***************************************************************************)
EXTENDS Integers, Sequences, FiniteSets, TLC

VARIABLES
    vdata,      \* analyze_vitals: the `data` argument
    vanalysis,  \* analyze_vitals: the returned analysis (<<>> before the call)
    ranalysis,  \* get_recommendations: the `analysis` argument
    rrisk,      \* get_recommendations: the `risk_level` argument of the last call
    rrecs,      \* get_recommendations: the result of the last call (<<>> before)
    rprev,      \* get_recommendations: <<risk_level, result>> of the call before
    modelFile,  \* model/health_risk_model.joblib
    scalerFile, \* model/health_risk_scaler.joblib
    tpc,        \* train_model: where the running call stands
    trun,       \* train_model: the number of the running (or last) call, and its dataset
    nreturned,  \* train_model: how many calls have returned
    records,    \* table medical_record: the latest record of each patient (<<>>: none)
    rows,       \* table health_risk_prediction
    pc,         \* per caller of predict_risk: where its call stands
    call,       \* per caller: kind, call number, patient_id and record_id of its call
    pdata,      \* per caller: the `data` argument of predict_risk
    loaded,     \* per caller: the model and scaler load_models returned
    ret,        \* per caller: what predict_risk returned or raised
    resp,       \* per caller: the HTTP response of the handler
    raised,     \* per caller: the step of predict_risk that raised ("" if none)
    overlap,    \* per caller: a train_model save overlapped its load_models
    ncalls      \* calls started so far; call k reads the time k from the clock

purevars == <<vdata, vanalysis, ranalysis, rrisk, rrecs, rprev>>
storevars == <<modelFile, scalerFile>>
trainvars == <<tpc, trun, nreturned>>
dbvars == <<records, rows>>
callvars == <<pc, call, pdata, loaded, ret, resp, raised, overlap, ncalls>>
sysvars == <<modelFile, scalerFile, tpc, trun, nreturned, records, rows,
             pc, call, pdata, loaded, ret, resp, raised, overlap, ncalls>>
vars == <<vdata, vanalysis, ranalysis, rrisk, rrecs, rprev,
          modelFile, scalerFile, tpc, trun, nreturned, records, rows,
          pc, call, pdata, loaded, ret, resp, raised, overlap, ncalls>>

----------------------------------------------------------------------------
(* HealthRiskAnalyzer.__init__: the threshold tables, in declaration order  *)
(* (a Python dict iterates in insertion order).                             *)

bp_thresholds ==
    << [level |-> "normal",   systolic |-> <<90, 120>>,  diastolic |-> <<60, 80>>],
       [level |-> "elevated", systolic |-> <<120, 130>>, diastolic |-> <<80, 85>>],
       [level |-> "high",     systolic |-> <<130, 180>>, diastolic |-> <<85, 120>>],
       [level |-> "crisis",   systolic |-> <<180, 300>>, diastolic |-> <<120, 200>>] >>

\* mmol/L in tenths: (3.9, 7.0), (7.0, 11.0), (11.0, 25.0)
bs_thresholds ==
    << [level |-> "normal",       range |-> <<39, 70>>],
       [level |-> "pre_diabetic", range |-> <<70, 110>>],
       [level |-> "diabetic",     range |-> <<110, 250>>] >>

heart_rate_thresholds ==
    << [level |-> "low",      range |-> <<0, 60>>],
       [level |-> "normal",   range |-> <<60, 100>>],
       [level |-> "elevated", range |-> <<100, 150>>],
       [level |-> "high",     range |-> <<150, 300>>] >>

\* degrees Celsius in tenths: (0, 35), (35, 37.5), (37.5, 38.5), (38.5, 45)
temp_thresholds ==
    << [level |-> "hypothermia", range |-> <<0, 350>>],
       [level |-> "normal",      range |-> <<350, 375>>],
       [level |-> "fever",       range |-> <<375, 385>>],
       [level |-> "high_fever",  range |-> <<385, 450>>] >>

----------------------------------------------------------------------------
(* The input mapping `data`: a Python dict.  num holds the keys whose value *)
(* is a number, str the keys whose value is not a number (a string).       *)

features == <<"Age", "SystolicBP", "DiastolicBP", "BS", "BodyTemp", "HeartRate">>

\* data.get(f, 0) for a key that holds a number or is absent
Get(data, f) == IF f \in DOMAIN data.num THEN data.num[f] ELSE 0

\* min_val <= v <= max_val
InRange(v, range) == range[1] <= v /\ v <= range[2]

\* the condition of the blood pressure loop
BpMatchOr(ranges, systolic, diastolic) ==
    InRange(systolic, ranges.systolic) \/ InRange(diastolic, ranges.diastolic)

BpMatch(ranges, systolic, diastolic) ==
    InRange(systolic, ranges.systolic) /\ InRange(diastolic, ranges.diastolic)

\* the status a loop starts from
DefaultStatusUnknown == "unknown"

DefaultStatus == "normal"

\* for level, ... in thresholds.items(): if <match>: status = level
\* hit[i] tells whether tier i matches; the loop runs over every tier.
RECURSIVE LoopFrom(_, _, _, _)
LoopFrom(tiers, hit, i, status) ==
    IF i > Len(tiers) THEN status
    ELSE LoopFrom(tiers, hit, i + 1, IF hit[i] THEN tiers[i].level ELSE status)

\* the same loop leaving at the first match
RECURSIVE LoopFirstFrom(_, _, _, _)
LoopFirstFrom(tiers, hit, i, status) ==
    IF i > Len(tiers) THEN status
    ELSE IF hit[i] THEN tiers[i].level
    ELSE LoopFirstFrom(tiers, hit, i + 1, status)

LoopFirst(tiers, hit) == LoopFirstFrom(tiers, hit, 1, DefaultStatus)

Loop(tiers, hit) == LoopFrom(tiers, hit, 1, DefaultStatus)

BpStatus(systolic, diastolic) ==
    Loop(bp_thresholds,
         [i \in 1..Len(bp_thresholds) |-> BpMatch(bp_thresholds[i], systolic, diastolic)])

RangeStatus(tiers, v) ==
    Loop(tiers, [i \in 1..Len(tiers) |-> InRange(v, tiers[i].range)])

get_bp_details(status) ==
    CASE status = "normal" -> "Blood pressure is within healthy range."
      [] status = "elevated" -> "Blood pressure is slightly elevated, indicating pre-hypertension."
      [] status = "high" -> "Blood pressure is high, indicating hypertension."
      [] status = "crisis" -> "Blood pressure is at crisis levels, requiring immediate medical attention."
      [] OTHER -> "Blood pressure status unclear."

get_bs_details(status) ==
    CASE status = "normal" -> "Blood sugar levels are within normal range."
      [] status = "pre_diabetic" -> "Blood sugar levels indicate pre-diabetes."
      [] status = "diabetic" -> "Blood sugar levels indicate diabetic range."
      [] OTHER -> "Blood sugar status unclear."

get_hr_details(status) ==
    CASE status = "low" -> "Heart rate is lower than normal (bradycardia)."
      [] status = "normal" -> "Heart rate is within normal range."
      [] status = "elevated" -> "Heart rate is elevated (mild tachycardia)."
      [] status = "high" -> "Heart rate is significantly elevated (tachycardia)."
      [] OTHER -> "Heart rate status unclear."

get_temp_details(status) ==
    CASE status = "hypothermia" -> "Body temperature is dangerously low."
      [] status = "normal" -> "Body temperature is within normal range."
      [] status = "fever" -> "Presence of fever indicates possible infection."
      [] status = "high_fever" -> "High fever requires immediate medical attention."
      [] OTHER -> "Temperature status unclear."

\* analyze_vitals(data, analyzer).  The blood pressure value is the string
\* f"{systolic}/{diastolic}" in the source and the pair here.
analyze_vitals(data) ==
    LET systolic  == Get(data, "SystolicBP")
        diastolic == Get(data, "DiastolicBP")
        bs        == Get(data, "BS")
        hr        == Get(data, "HeartRate")
        temp      == Get(data, "BodyTemp")
        bp_status   == BpStatus(systolic, diastolic)
        bs_status   == RangeStatus(bs_thresholds, bs)
        hr_status   == RangeStatus(heart_rate_thresholds, hr)
        temp_status == RangeStatus(temp_thresholds, temp)
    IN  [blood_pressure |-> [status |-> bp_status, value |-> <<systolic, diastolic>>,
                             details |-> get_bp_details(bp_status)],
         blood_sugar    |-> [status |-> bs_status, value |-> <<bs>>,
                             details |-> get_bs_details(bs_status)],
         heart_rate     |-> [status |-> hr_status, value |-> <<hr>>,
                             details |-> get_hr_details(hr_status)],
         temperature    |-> [status |-> temp_status, value |-> <<temp>>,
                             details |-> get_temp_details(temp_status)]]

----------------------------------------------------------------------------
(* get_recommendations(data, risk_level, analysis).  `data` is not read.    *)

BpEmergency ==
    << "Seek emergency medical attention for high blood pressure",
       "Take prescribed blood pressure medication if available",
       "Sit quietly and try to remain calm" >>

GlycemicEmergency ==
    << "Check ketone levels if you have diabetes",
       "Take insulin or diabetes medication as prescribed",
       "Contact your healthcare provider immediately" >>

FeverEmergency ==
    << "Take appropriate fever-reducing medication",
       "Stay hydrated and monitor temperature regularly",
       "Seek immediate medical care if temperature continues to rise" >>

BpLifestyle ==
    << "Reduce sodium intake in your diet",
       "Engage in regular physical activity",
       "Practice stress management techniques",
       "Maintain a healthy weight" >>

GlycemicLifestyle ==
    << "Follow a balanced, low-glycemic diet",
       "Exercise regularly for blood sugar control",
       "Monitor carbohydrate intake",
       "Get adequate sleep" >>

MonitoringChecklist ==
    << "Monitor blood pressure daily",
       "Keep a log of blood sugar readings",
       "Track heart rate during rest and activity",
       "Record any new or changing symptoms" >>

UrgentFollowUp ==
    << "Schedule an immediate appointment with your healthcare provider",
       "Bring your vital signs log to your appointment",
       "Discuss medication adjustments if needed" >>

OneWeekFollowUp ==
    << "Schedule a follow-up appointment within the next week",
       "Prepare questions about lifestyle modifications",
       "Consider a medication review" >>

RoutineFollowUp ==
    << "Continue regular check-ups",
       "Maintain preventive health screenings",
       "Update emergency contact information" >>

\* list.extend(items) when cond holds
ExtendIf(list, cond, items) == IF cond THEN list \o items ELSE list

\* immediate actions without the risk_level gate
ImmediateActionsUngated(risk_level, analysis) ==
    ExtendIf(ExtendIf(ExtendIf(<<>>,
        analysis.blood_pressure.status \in {"high", "crisis"}, BpEmergency),
        analysis.blood_sugar.status = "diabetic", GlycemicEmergency),
        analysis.temperature.status = "high_fever", FeverEmergency)

ImmediateActions(risk_level, analysis) ==
    IF risk_level = "high"
    THEN ExtendIf(ExtendIf(ExtendIf(<<>>,
            analysis.blood_pressure.status \in {"high", "crisis"}, BpEmergency),
            analysis.blood_sugar.status = "diabetic", GlycemicEmergency),
            analysis.temperature.status = "high_fever", FeverEmergency)
    ELSE <<>>

\* lifestyle changes offered only from a medium risk upwards
LifestyleChangesGated(risk_level, analysis) ==
    IF risk_level \in {"high", "mid"}
    THEN ExtendIf(ExtendIf(<<>>,
            analysis.blood_pressure.status \in {"elevated", "high"}, BpLifestyle),
            analysis.blood_sugar.status \in {"pre_diabetic", "diabetic"}, GlycemicLifestyle)
    ELSE <<>>

LifestyleChanges(risk_level, analysis) ==
    ExtendIf(ExtendIf(<<>>,
        analysis.blood_pressure.status \in {"elevated", "high"}, BpLifestyle),
        analysis.blood_sugar.status \in {"pre_diabetic", "diabetic"}, GlycemicLifestyle)

\* monitoring keyed on the label of the database column ('medium')
MonitoringSuggestionsMedium(risk_level) ==
    ExtendIf(<<>>, risk_level \in {"high", "medium"}, MonitoringChecklist)

MonitoringSuggestions(risk_level) ==
    ExtendIf(<<>>, risk_level \in {"high", "mid"}, MonitoringChecklist)

\* follow-up with the one-week list also given to 'medium'
FollowUpCareMedium(risk_level) ==
    IF risk_level = "high" THEN UrgentFollowUp
    ELSE IF risk_level \in {"mid", "medium"} THEN OneWeekFollowUp
    ELSE RoutineFollowUp

FollowUpCare(risk_level) ==
    IF risk_level = "high" THEN UrgentFollowUp
    ELSE IF risk_level = "mid" THEN OneWeekFollowUp
    ELSE RoutineFollowUp

get_recommendations(risk_level, analysis) ==
    [immediate_actions      |-> ImmediateActions(risk_level, analysis),
     lifestyle_changes      |-> LifestyleChanges(risk_level, analysis),
     monitoring_suggestions |-> MonitoringSuggestions(risk_level),
     follow_up_care         |-> FollowUpCare(risk_level)]

----------------------------------------------------------------------------
(* The state before any request and any training run.                      *)

Procs == {"c1", "c2"}
Patients == {1, 2}

AbsentFile == [st |-> "absent", run |-> 0, ds |-> 0]
NoCall == [kind |-> "", id |-> 0, patient_id |-> 0, record_id |-> 0]
NoData == [num |-> <<>>, str |-> {}]
NoRet == [status |-> "none", value |-> <<>>, error |-> ""]
NoResp == [code |-> 0, body |-> ""]

StoreInit == modelFile = AbsentFile /\ scalerFile = AbsentFile
TrainInit == tpc = "idle" /\ trun = [run |-> 0, ds |-> 0] /\ nreturned = 0
CallInit ==
    /\ pc = [p \in Procs |-> "idle"]
    /\ call = [p \in Procs |-> NoCall]
    /\ pdata = [p \in Procs |-> NoData]
    /\ loaded = [p \in Procs |-> [model |-> AbsentFile, scaler |-> AbsentFile]]
    /\ ret = [p \in Procs |-> NoRet]
    /\ resp = [p \in Procs |-> NoResp]
    /\ raised = [p \in Procs |-> ""]
    /\ overlap = [p \in Procs |-> FALSE]
    /\ ncalls = 0
PureInit ==
    /\ vdata = NoData /\ vanalysis = <<>>
    /\ ranalysis = <<>> /\ rrisk = "" /\ rrecs = <<>> /\ rprev = <<"", <<>>>>
SysIdle ==
    /\ StoreInit /\ TrainInit /\ CallInit
    /\ records = [i \in Patients |-> <<>>] /\ rows = {}

----------------------------------------------------------------------------
(* analyze_vitals as a pure function: the inputs are drawn from values on,  *)
(* next to and between the boundaries of every tier; a key may be absent.   *)

SysValues  == {0, 89, 90, 110, 120, 130, 180, 190, 300, 301}
DiaValues  == {0, 59, 60, 70, 80, 85, 120, 130, 200, 201}
BsValues   == {0, 38, 39, 70, 110, 250, 251}
TempValues == {0, 350, 375, 385, 450, 451}
HrValues   == {0, 60, 100, 150, 300, 301}

\* the dicts with the given keys present or absent: absent is drawn as -1
DictOf(sys, dia, bs, temp, hr) ==
    LET all == [SystolicBP |-> sys, DiastolicBP |-> dia, BS |-> bs,
                BodyTemp |-> temp, HeartRate |-> hr]
        keys == {k \in DOMAIN all : all[k] # -1}
    IN  [num |-> [k \in keys |-> all[k]], str |-> {}]

VitalsInputs ==
    { DictOf(sys, dia, bs, temp, hr) :
        sys \in SysValues \cup {-1}, dia \in DiaValues \cup {-1},
        bs \in BsValues \cup {-1}, temp \in TempValues \cup {-1},
        hr \in HrValues \cup {-1} }

VitalsInit ==
    /\ vdata \in VitalsInputs /\ vanalysis = <<>>
    /\ ranalysis = <<>> /\ rrisk = "" /\ rrecs = <<>> /\ rprev = <<"", <<>>>>
    /\ SysIdle

AnalyzeVitals ==
    /\ vanalysis = <<>>
    /\ vanalysis' = <<analyze_vitals(vdata)>>
    /\ UNCHANGED <<vdata, ranalysis, rrisk, rrecs, rprev>>
    /\ UNCHANGED sysvars

VitalsNext == AnalyzeVitals

SpecVitals == VitalsInit /\ [][VitalsNext]_vars

----------------------------------------------------------------------------
(* get_recommendations as a pure function: the analysis is any bundle      *)
(* analyze_vitals returns, the risk level any label of the classifier or   *)
(* of the database column; the call is repeated on the same bundle.        *)

RiskLabels == {"low", "mid", "medium", "high"}

\* one input per tier of every category
RecInputs ==
    { DictOf(bp[1], bp[2], bs, temp, hr) :
        bp \in {<<110, 70>>, <<125, 82>>, <<150, 100>>, <<190, 130>>},
        bs \in {50, 80, 120}, temp \in {340, 365, 380, 390},
        hr \in {50, 75, 120, 160} }

RecInit ==
    /\ vdata \in RecInputs /\ vanalysis = <<analyze_vitals(vdata)>>
    /\ ranalysis = analyze_vitals(vdata)
    /\ rrisk = "" /\ rrecs = <<>> /\ rprev = <<"", <<>>>>
    /\ SysIdle

Recommend ==
    \E risk_level \in RiskLabels :
        /\ rprev[2] = <<>>
        /\ rprev' = <<rrisk, rrecs>>
        /\ rrisk' = risk_level
        /\ rrecs' = <<get_recommendations(risk_level, ranalysis)>>
        /\ UNCHANGED <<vdata, vanalysis, ranalysis>>
        /\ UNCHANGED sysvars

RecNext == Recommend

SpecRec == RecInit /\ [][RecNext]_vars

----------------------------------------------------------------------------
(* train_model: the fitted scaler and classifier.  The fit is a function of *)
(* the dataset alone (random_state is fixed).  A dataset is stood for by    *)
(* what the fit learns from it: the mean and the standard deviation of each *)
(* feature, the decision stumps of the forest and the sorted class labels.  *)

Datasets == {1, 2}

\* StandardScaler().fit: mean_ and scale_ of each feature
ScalerFit(ds) ==
    IF ds = 1
    THEN [mean  |-> [Age |-> 30, SystolicBP |-> 113, DiastolicBP |-> 76,
                     BS |-> 87, BodyTemp |-> 370, HeartRate |-> 74],
          scale |-> [Age |-> 13, SystolicBP |-> 18, DiastolicBP |-> 14,
                     BS |-> 33, BodyTemp |-> 8, HeartRate |-> 8]]
    ELSE [mean  |-> [Age |-> 45, SystolicBP |-> 130, DiastolicBP |-> 85,
                     BS |-> 60, BodyTemp |-> 368, HeartRate |-> 80],
          scale |-> [Age |-> 10, SystolicBP |-> 25, DiastolicBP |-> 10,
                     BS |-> 20, BodyTemp |-> 5, HeartRate |-> 12]]

\* RandomForestClassifier(...).fit: classes_ (sorted labels, after the label
\* column was lower-cased and ' risk' removed) and the trees, each a stump
\* on one scaled feature (the scaled values are in tenths)
ForestFit(ds) ==
    IF ds = 1
    THEN [classes |-> <<"high", "low", "mid">>,
          trees |-> << [f |-> "SystolicBP", cut |-> 10, above |-> "high", below |-> "mid"],
                       [f |-> "BS",         cut |-> 5,  above |-> "high", below |-> "low"],
                       [f |-> "BodyTemp",   cut |-> 10, above |-> "high", below |-> "mid"] >>]
    ELSE [classes |-> <<"high", "low", "medium">>,
          trees |-> << [f |-> "SystolicBP", cut |-> 15, above |-> "high",   below |-> "medium"],
                       [f |-> "BS",         cut |-> 20, above |-> "high",   below |-> "low"],
                       [f |-> "HeartRate",  cut |-> -10, above |-> "medium", below |-> "low"] >>]

\* floor division, also of a negative numerator
FloorDiv(a, b) == IF a >= 0 THEN a \div b ELSE -((-a + b - 1) \div b)

\* scaler.transform(input_data): (x - mean_) / scale_, kept in tenths
Transform(scaler, input) ==
    LET fit == ScalerFit(scaler.ds)
    IN  [f \in DOMAIN input |-> FloorDiv((input[f] - fit.mean[f]) * 10, fit.scale[f])]

\* model.predict_proba(input_scaled)[0]: the share of the trees voting for
\* each class, in percent, in the order of classes_
PredictProba(model, scaled) ==
    LET fit == ForestFit(model.ds)
        vote(t) == IF scaled[t.f] >= t.cut THEN t.above ELSE t.below
        votes(c) == Cardinality({i \in 1..Len(fit.trees) : vote(fit.trees[i]) = c})
    IN  [i \in 1..Len(fit.classes) |-> (votes(fit.classes[i]) * 100) \div Len(fit.trees)]

MaxOf(seq) == CHOOSE m \in {seq[i] : i \in 1..Len(seq)} : \A i \in 1..Len(seq) : seq[i] <= m

\* model.predict(input_scaled)[0]: the first class of the highest probability
Predict(model, scaled) ==
    LET fit == ForestFit(model.ds)
        proba == PredictProba(model, scaled)
        best == CHOOSE i \in 1..Len(proba) :
                    /\ proba[i] = MaxOf(proba)
                    /\ \A j \in 1..Len(proba) : proba[j] = MaxOf(proba) => i <= j
    IN  fit.classes[best]

----------------------------------------------------------------------------
(* predict_risk, from the loaded artifacts on (lines 46-68).                *)

\* input_data = np.array([[data.get(f, 0) for f in features]])
InputData(data) == [f \in {features[i] : i \in 1..Len(features)} |-> Get(data, f)]

\* a value that is not a number makes scaler.transform raise
Rejected(data) == data.str \cap {features[i] : i \in 1..Len(features)} # {}

\* the result with the model read a second time from the file when the
\* prediction is made, not the one load_models returned
RiskResultRereading(data, model, scaler, now) ==
    LET input_scaled == Transform(scaler, InputData(data))
        reread == IF modelFile.st = "complete" THEN modelFile ELSE model
        risk_level == Predict(reread, input_scaled)
        analysis == analyze_vitals(data)
    IN  [risk_level |-> risk_level,
         confidence |-> MaxOf(PredictProba(reread, input_scaled)),
         vital_signs_analysis |-> analysis,
         recommendations |-> get_recommendations(risk_level, analysis),
         timestamp |-> now]

RiskResult(data, model, scaler, now) ==
    LET input_scaled == Transform(scaler, InputData(data))
        risk_level == Predict(model, input_scaled)
        analysis == analyze_vitals(data)
    IN  [risk_level |-> risk_level,
         confidence |-> MaxOf(PredictProba(model, input_scaled)),
         vital_signs_analysis |-> analysis,
         recommendations |-> get_recommendations(risk_level, analysis),
         timestamp |-> now]

----------------------------------------------------------------------------
(* The service: callers of predict_risk (the POST /prediction handler and   *)
(* direct callers) and train_model runs, interleaved at their file and      *)
(* database accesses.                                                       *)

MaxCalls == 2
MaxRuns == 2

\* the values of Enum('low', 'medium', 'high')
ColumnLabels == {"low", "medium", "high"}

\* the age the handler computes from patient.birth_date
PatientAge(patient_id) == IF patient_id = 1 THEN 35 ELSE 30

\* the latest medical record a patient may have; an absent column is NULL
RecordVitals ==
    { [SystolicBP |-> 120, DiastolicBP |-> 80, BodyTemp |-> 365, HeartRate |-> 75] }

\* the dicts a direct caller passes
DirectInputs ==
    { [num |-> [SystolicBP |-> 190, DiastolicBP |-> 70], str |-> {}],
      [num |-> [Age |-> 30, SystolicBP |-> 110, DiastolicBP |-> 70,
                BodyTemp |-> 365, HeartRate |-> 75], str |-> {"BS"}] }

Init ==
    /\ PureInit /\ StoreInit /\ TrainInit /\ CallInit
    /\ \E v \in RecordVitals : records = [i \in Patients |->
                                    IF i = 1 THEN <<[vitals |-> v]>> ELSE <<>>]
    /\ rows = {}

\* record_id of the latest record of a patient
RecordId(patient_id) == 100 + patient_id

\* latest_record.<column> or 0
OrZero(rec, column) == IF column \in DOMAIN rec.vitals THEN rec.vitals[column] ELSE 0

\* prediction_input of the handler
PredictionInput(patient_id, rec) ==
    [num |-> [Age |-> PatientAge(patient_id),
              SystolicBP |-> OrZero(rec, "SystolicBP"),
              DiastolicBP |-> OrZero(rec, "DiastolicBP"),
              BS |-> OrZero(rec, "BS"),
              BodyTemp |-> OrZero(rec, "BodyTemp"),
              HeartRate |-> OrZero(rec, "HeartRate")],
     str |-> {}]

\* a train_model call is between opening the first file and closing the second
Saving == tpc \in {"model_open", "model_saved", "scaler_open"}

\* ---- train_model ----

\* lines 11-31: read the dataset, fit the scaler and the forest.  A call that
\* raises here (a dataset that cannot be read) has touched no file and is
\* not a step.
TrainStart ==
    \E ds \in Datasets :
        /\ tpc = "idle" /\ trun.run < MaxRuns
        /\ trun' = [run |-> trun.run + 1, ds |-> ds]
        /\ tpc' = "fitted"
        /\ UNCHANGED <<nreturned, purevars, storevars, dbvars, callvars>>

\* a save step of train_model is seen by every caller between its two loads
MarkOverlap == [p \in Procs |-> overlap[p] \/ pc[p] = "load_scaler"]

\* line 34, joblib.dump opening the model file for writing (truncating it)
TrainOpenModel ==
    /\ tpc = "fitted"
    /\ modelFile' = [st |-> "partial", run |-> trun.run, ds |-> trun.ds]
    /\ tpc' = "model_open"
    /\ overlap' = MarkOverlap
    /\ UNCHANGED <<scalerFile, trun, nreturned, purevars, dbvars,
                   pc, call, pdata, loaded, ret, resp, raised, ncalls>>

\* line 34, the model file written and closed
TrainCloseModel ==
    /\ tpc = "model_open"
    /\ modelFile' = [modelFile EXCEPT !.st = "complete"]
    /\ tpc' = "model_saved"
    /\ overlap' = MarkOverlap
    /\ UNCHANGED <<scalerFile, trun, nreturned, purevars, dbvars,
                   pc, call, pdata, loaded, ret, resp, raised, ncalls>>

\* line 35 left out: the scaler is never written
TrainSkipScaler ==
    /\ tpc = "model_saved"
    /\ tpc' = "idle"
    /\ nreturned' = nreturned + 1
    /\ overlap' = MarkOverlap
    /\ UNCHANGED <<storevars, trun, purevars, dbvars,
                   pc, call, pdata, loaded, ret, resp, raised, ncalls>>

\* line 35, joblib.dump opening the scaler file for writing
TrainOpenScaler ==
    /\ tpc = "model_saved"
    /\ scalerFile' = [st |-> "partial", run |-> trun.run, ds |-> trun.ds]
    /\ tpc' = "scaler_open"
    /\ overlap' = MarkOverlap
    /\ UNCHANGED <<modelFile, trun, nreturned, purevars, dbvars,
                   pc, call, pdata, loaded, ret, resp, raised, ncalls>>

\* lines 35-37, the scaler file written and closed, and the call returns
TrainCloseScaler ==
    /\ tpc = "scaler_open"
    /\ scalerFile' = [scalerFile EXCEPT !.st = "complete"]
    /\ tpc' = "idle"
    /\ nreturned' = nreturned + 1
    /\ overlap' = MarkOverlap
    /\ UNCHANGED <<modelFile, trun, purevars, dbvars,
                   pc, call, pdata, loaded, ret, resp, raised, ncalls>>

\* ---- predict_risk and its callers ----

\* a failed load answered with a default verdict in place of the exception
RaiseDefaulting(p, step, error) ==
    /\ raised' = [raised EXCEPT ![p] = step]
    /\ ret' = [ret EXCEPT ![p] =
                 [status |-> "ok", error |-> "",
                  value |-> <<[risk_level |-> "low", confidence |-> 0,
                               vital_signs_analysis |-> analyze_vitals(pdata[p]),
                               recommendations |->
                                   get_recommendations("low", analyze_vitals(pdata[p])),
                               timestamp |-> call[p].id]>>]]
    /\ resp' = resp
    /\ pc' = [pc EXCEPT ![p] = IF call[p].kind = "post" THEN "save" ELSE "done"]

\* an exception leaves predict_risk at `step`; the handler's except clause
\* rolls back and aborts with 500, a direct caller sees the exception
Raise(p, step, error) ==
    /\ raised' = [raised EXCEPT ![p] = step]
    /\ ret' = [ret EXCEPT ![p] = [status |-> "error", value |-> <<>>, error |-> error]]
    /\ resp' = [resp EXCEPT ![p] =
                  IF call[p].kind = "post" THEN [code |-> 500, body |-> "error"]
                  ELSE resp[p]]
    /\ pc' = [pc EXCEPT ![p] = "done"]

\* post, lines 137-191: the request is read and the database queried
PostLookup(p) ==
    \E patient_id \in Patients \cup {3} :
        /\ pc[p] = "idle" /\ ncalls < MaxCalls
        /\ ncalls' = ncalls + 1
        /\ raised' = [raised EXCEPT ![p] = ""]
        /\ overlap' = [overlap EXCEPT ![p] = FALSE]
        /\ ret' = [ret EXCEPT ![p] = NoRet]
        /\ loaded' = [loaded EXCEPT ![p] = [model |-> AbsentFile, scaler |-> AbsentFile]]
        /\ IF patient_id \notin Patients \/ records[patient_id] = <<>>
           THEN \* get_or_404 or api.abort(404) raise inside the try: 500
                /\ call' = [call EXCEPT ![p] = [kind |-> "post", id |-> ncalls + 1,
                                patient_id |-> patient_id, record_id |-> 0]]
                /\ pdata' = [pdata EXCEPT ![p] = NoData]
                /\ resp' = [resp EXCEPT ![p] = [code |-> 500, body |-> "not found"]]
                /\ pc' = [pc EXCEPT ![p] = "done"]
           ELSE /\ call' = [call EXCEPT ![p] = [kind |-> "post", id |-> ncalls + 1,
                                patient_id |-> patient_id,
                                record_id |-> RecordId(patient_id)]]
                /\ IF \E r \in rows : r.patient_id = patient_id
                                      /\ r.record_id = RecordId(patient_id)
                   THEN /\ pdata' = [pdata EXCEPT ![p] = NoData]
                        /\ resp' = [resp EXCEPT ![p] = [code |-> 200, body |-> "existing"]]
                        /\ pc' = [pc EXCEPT ![p] = "done"]
                   ELSE /\ pdata' = [pdata EXCEPT ![p] =
                                PredictionInput(patient_id, records[patient_id][1])]
                        /\ resp' = [resp EXCEPT ![p] = NoResp]
                        /\ pc' = [pc EXCEPT ![p] = "load_model"]
        /\ UNCHANGED <<purevars, storevars, trainvars, dbvars>>

\* predict_risk(data) called by another caller than the handler
DirectCall(p) ==
    \E data \in DirectInputs :
        /\ pc[p] = "idle" /\ ncalls < MaxCalls
        /\ ncalls' = ncalls + 1
        /\ call' = [call EXCEPT ![p] = [kind |-> "direct", id |-> ncalls + 1,
                                        patient_id |-> 0, record_id |-> 0]]
        /\ pdata' = [pdata EXCEPT ![p] = data]
        /\ raised' = [raised EXCEPT ![p] = ""]
        /\ overlap' = [overlap EXCEPT ![p] = FALSE]
        /\ ret' = [ret EXCEPT ![p] = NoRet]
        /\ resp' = [resp EXCEPT ![p] = NoResp]
        /\ loaded' = [loaded EXCEPT ![p] = [model |-> AbsentFile, scaler |-> AbsentFile]]
        /\ pc' = [pc EXCEPT ![p] = "load_model"]
        /\ UNCHANGED <<purevars, storevars, trainvars, dbvars>>

\* load_models, line 37
LoadModel(p) ==
    /\ pc[p] = "load_model"
    /\ IF modelFile.st = "complete"
       THEN /\ loaded' = [loaded EXCEPT ![p].model = modelFile]
            /\ overlap' = [overlap EXCEPT ![p] = Saving]
            /\ pc' = [pc EXCEPT ![p] = "load_scaler"]
            /\ UNCHANGED <<ret, resp, raised>>
       ELSE /\ Raise(p, "load_model",
                     IF modelFile.st = "absent" THEN "FileNotFoundError" ELSE "EOFError")
            /\ overlap' = [overlap EXCEPT ![p] = Saving]
            /\ UNCHANGED loaded
    /\ UNCHANGED <<purevars, storevars, trainvars, dbvars, call, pdata, ncalls>>

\* predict_risk, lines 44-68: no file and no table is touched, so the lines
\* run in one step with the load before them
Compute(p, model, scaler) ==
    IF Rejected(pdata[p])
    THEN Raise(p, "transform", "ValueError")
    ELSE /\ ret' = [ret EXCEPT ![p] =
                     [status |-> "ok", error |-> "",
                      value |-> <<RiskResult(pdata[p], model, scaler, call[p].id)>>]]
         /\ pc' = [pc EXCEPT ![p] = IF call[p].kind = "post" THEN "save" ELSE "done"]
         /\ UNCHANGED <<resp, raised>>

\* load_models, line 38, and the rest of predict_risk
LoadScaler(p) ==
    /\ pc[p] = "load_scaler"
    /\ overlap' = [overlap EXCEPT ![p] = overlap[p] \/ Saving]
    /\ IF scalerFile.st = "complete"
       THEN /\ loaded' = [loaded EXCEPT ![p].scaler = scalerFile]
            /\ Compute(p, loaded[p].model, scalerFile)
       ELSE /\ Raise(p, "load_scaler",
                     IF scalerFile.st = "absent" THEN "FileNotFoundError" ELSE "EOFError")
            /\ UNCHANGED loaded
    /\ UNCHANGED <<purevars, storevars, trainvars, dbvars, call, pdata, ncalls>>

\* the row the handler adds: str() of a dict is held as the dict in a box
NewRow(p, risk_level) ==
    [prediction_id |-> Cardinality(rows) + 1,
     patient_id |-> call[p].patient_id,
     record_id |-> call[p].record_id,
     risk_level |-> risk_level,
     prediction_details |-> [str |-> ret[p].value[1].vital_signs_analysis],
     recommendations |-> [str |-> ret[p].value[1].recommendations],
     call |-> call[p].id]

\* post, lines 196-222: the row is added and committed, the response built.
\* A risk_level outside the Enum is refused by a strict SQL mode (the except
\* clause answers 500) and stored as '' by a permissive one.
PostSave(p) ==
    /\ pc[p] = "save"
    /\ LET risk_level == ret[p].value[1].risk_level
       IN  \/ /\ risk_level \in ColumnLabels
              /\ rows' = rows \cup {NewRow(p, risk_level)}
              /\ resp' = [resp EXCEPT ![p] = [code |-> 200, body |-> "new"]]
           \/ /\ risk_level \notin ColumnLabels
              /\ rows' = rows \cup {NewRow(p, "")}
              /\ resp' = [resp EXCEPT ![p] = [code |-> 200, body |-> "new"]]
           \/ /\ risk_level \notin ColumnLabels
              /\ rows' = rows
              /\ resp' = [resp EXCEPT ![p] = [code |-> 500, body |-> "error"]]
    /\ pc' = [pc EXCEPT ![p] = "done"]
    /\ UNCHANGED <<purevars, storevars, trainvars, records, call, pdata, loaded,
                   ret, raised, overlap, ncalls>>

\* the caller is free for its next call
Finish(p) ==
    /\ pc[p] = "done" /\ ncalls < MaxCalls
    /\ pc' = [pc EXCEPT ![p] = "idle"]
    /\ call' = [call EXCEPT ![p] = NoCall]
    /\ pdata' = [pdata EXCEPT ![p] = NoData]
    /\ loaded' = [loaded EXCEPT ![p] = [model |-> AbsentFile, scaler |-> AbsentFile]]
    /\ ret' = [ret EXCEPT ![p] = NoRet]
    /\ resp' = [resp EXCEPT ![p] = NoResp]
    /\ raised' = [raised EXCEPT ![p] = ""]
    /\ overlap' = [overlap EXCEPT ![p] = FALSE]
    /\ UNCHANGED <<purevars, storevars, trainvars, dbvars, ncalls>>

Next ==
    \/ TrainStart
    \/ TrainOpenModel \/ TrainCloseModel \/ TrainOpenScaler \/ TrainCloseScaler
    \/ \E p \in Procs :
        \/ PostLookup(p) \/ DirectCall(p)
        \/ LoadModel(p) \/ LoadScaler(p)
        \/ PostSave(p) \/ Finish(p)

Spec == Init /\ [][Next]_vars

----------------------------------------------------------------------------
(* Properties of analyze_vitals (SpecVitals).                               *)

Analyzed == vanalysis # <<>>
Sys == Get(vdata, "SystolicBP")
Dia == Get(vdata, "DiastolicBP")
StatusOf(category) == vanalysis[1][category].status

\* the tiers of a category whose inclusive range holds v, by position
TiersHolding(tiers, v) ==
    {i \in 1..Len(tiers) : tiers[i].range[1] <= v /\ v <= tiers[i].range[2]}
\* the blood pressure tiers whose two ranges hold systolic and diastolic
BpTiersHolding(s, d) ==
    {i \in 1..Len(bp_thresholds) :
        /\ bp_thresholds[i].systolic[1] <= s /\ s <= bp_thresholds[i].systolic[2]
        /\ bp_thresholds[i].diastolic[1] <= d /\ d <= bp_thresholds[i].diastolic[2]}
Last(S) == CHOOSE i \in S : \A j \in S : j <= i

\* C1 as stated: every SystolicBP in [90,120] with DiastolicBP in [60,80]
\* is given the blood_pressure status "normal".
C1_AllNormalInRange ==
    (Analyzed /\ 90 <= Sys /\ Sys <= 120 /\ 60 <= Dia /\ Dia <= 80)
        => StatusOf("blood_pressure") = "normal"

\* C1 amended: every SystolicBP in [90,120] with DiastolicBP in [60,80] is
\* given the status "normal", except the pair 120/80, which is "elevated".
C1_NormalInRangeButCorner ==
    (Analyzed /\ 90 <= Sys /\ Sys <= 120 /\ 60 <= Dia /\ Dia <= 80)
        => StatusOf("blood_pressure") =
             (IF Sys = 120 /\ Dia = 80 THEN "elevated" ELSE "normal")

C1_Witness ==
    Analyzed /\ Sys = 120 /\ Dia = 70 /\ StatusOf("blood_pressure") = "normal"

\* C2: in each of the four categories a value held by the ranges of one or
\* more tiers is given the tier declared last among them; 120/80 is
\* "elevated", BS 7.0 "pre_diabetic", HeartRate 100 "elevated", BodyTemp
\* 37.5 "fever".
C2_LastTierWins ==
    Analyzed =>
      LET bs == Get(vdata, "BS")
          hr == Get(vdata, "HeartRate")
          temp == Get(vdata, "BodyTemp")
      IN  /\ BpTiersHolding(Sys, Dia) # {} =>
                StatusOf("blood_pressure") =
                    bp_thresholds[Last(BpTiersHolding(Sys, Dia))].level
          /\ TiersHolding(bs_thresholds, bs) # {} =>
                StatusOf("blood_sugar") =
                    bs_thresholds[Last(TiersHolding(bs_thresholds, bs))].level
          /\ TiersHolding(heart_rate_thresholds, hr) # {} =>
                StatusOf("heart_rate") =
                    heart_rate_thresholds[Last(TiersHolding(heart_rate_thresholds, hr))].level
          /\ TiersHolding(temp_thresholds, temp) # {} =>
                StatusOf("temperature") =
                    temp_thresholds[Last(TiersHolding(temp_thresholds, temp))].level
          /\ (Sys = 120 /\ Dia = 80) => StatusOf("blood_pressure") = "elevated"
          /\ bs = 70 => StatusOf("blood_sugar") = "pre_diabetic"
          /\ hr = 100 => StatusOf("heart_rate") = "elevated"
          /\ temp = 375 => StatusOf("temperature") = "fever"

C2_Witness ==
    /\ Analyzed /\ Sys = 120 /\ Dia = 80
    /\ Get(vdata, "BS") = 70 /\ Get(vdata, "HeartRate") = 100
    /\ Get(vdata, "BodyTemp") = 375
    /\ Cardinality(BpTiersHolding(Sys, Dia)) = 2
    /\ Cardinality(TiersHolding(bs_thresholds, 70)) = 2
    /\ StatusOf("temperature") = "fever"

\* C3: a value held by no tier of its category is given the status "normal"
\* and the analysis is returned; a blood pressure tier holds a pair only if
\* it holds both numbers; an absent or zero BS is "normal", and so is 190/70.
C3_DefaultNormal ==
    Analyzed =>
      LET bs == Get(vdata, "BS")
          hr == Get(vdata, "HeartRate")
          temp == Get(vdata, "BodyTemp")
      IN  /\ BpTiersHolding(Sys, Dia) = {} => StatusOf("blood_pressure") = "normal"
          /\ TiersHolding(bs_thresholds, bs) = {} => StatusOf("blood_sugar") = "normal"
          /\ TiersHolding(heart_rate_thresholds, hr) = {} => StatusOf("heart_rate") = "normal"
          /\ TiersHolding(temp_thresholds, temp) = {} => StatusOf("temperature") = "normal"
          /\ ("BS" \notin DOMAIN vdata.num \/ bs = 0) => StatusOf("blood_sugar") = "normal"
          /\ (Sys = 190 /\ Dia = 70) => StatusOf("blood_pressure") = "normal"

C3_Witness ==
    /\ Analyzed /\ "BS" \notin DOMAIN vdata.num /\ Sys = 190 /\ Dia = 70
    /\ Get(vdata, "BodyTemp") = 451 /\ Get(vdata, "HeartRate") = 301
    /\ StatusOf("blood_pressure") = "normal" /\ StatusOf("blood_sugar") = "normal"
    /\ StatusOf("temperature") = "normal"

----------------------------------------------------------------------------
(* Properties of get_recommendations (SpecRec).                             *)

Recommended == rrecs # <<>>
RStatus(category) == ranalysis[category].status
When(cond, items) == IF cond THEN items ELSE <<>>

\* C4: immediate_actions is empty unless risk_level is "high"; for "high" it
\* is the blood pressure items (status high or crisis), then the glycemic
\* items (diabetic), then the fever items (high_fever).
C4_ImmediateActions ==
    Recommended =>
        rrecs[1].immediate_actions =
            IF rrisk # "high" THEN <<>>
            ELSE When(RStatus("blood_pressure") \in {"high", "crisis"}, BpEmergency)
                 \o When(RStatus("blood_sugar") = "diabetic", GlycemicEmergency)
                 \o When(RStatus("temperature") = "high_fever", FeverEmergency)

C4_Witness ==
    /\ Recommended /\ rrisk = "high" /\ rprev[1] = "mid" /\ rprev[2] # <<>>
    /\ rprev[2][1].immediate_actions = <<>>
    /\ RStatus("blood_pressure") = "crisis" /\ RStatus("blood_sugar") = "diabetic"
    /\ RStatus("temperature") = "high_fever"
    /\ Len(rrecs[1].immediate_actions) = 9

\* C5: follow_up_care is one of the three fixed lists, chosen by risk_level
\* alone: urgent for "high", one-week for "mid", routine for any other label.
C5_FollowUpCare ==
    Recommended =>
        /\ rrecs[1].follow_up_care \in {UrgentFollowUp, OneWeekFollowUp, RoutineFollowUp}
        /\ Len(rrecs[1].follow_up_care) = 3
        /\ rrecs[1].follow_up_care =
             (CASE rrisk = "high" -> UrgentFollowUp
                [] rrisk = "mid" -> OneWeekFollowUp
                [] OTHER -> RoutineFollowUp)

C5_Witness ==
    /\ Recommended /\ rrisk = "medium" /\ rrecs[1].follow_up_care = RoutineFollowUp
    /\ rprev[1] = "mid" /\ rprev[2] # <<>>
    /\ rprev[2][1].follow_up_care = OneWeekFollowUp

\* C6: monitoring_suggestions is the four-item checklist exactly when
\* risk_level is "high" or "mid", and empty for every other label.
C6_Monitoring ==
    Recommended =>
        /\ Len(MonitoringChecklist) = 4
        /\ rrecs[1].monitoring_suggestions =
             (IF rrisk \in {"high", "mid"} THEN MonitoringChecklist ELSE <<>>)

C6_Witness ==
    /\ Recommended /\ rrisk = "medium" /\ rrecs[1].monitoring_suggestions = <<>>
    /\ rprev[1] = "high" /\ rprev[2] # <<>>
    /\ rprev[2][1].monitoring_suggestions = MonitoringChecklist
    /\ RStatus("blood_pressure") = "crisis"

\* C7: two calls on the same analysis with different risk levels return the
\* same lifestyle_changes: the blood pressure items (status elevated or
\* high), then the glycemic items (pre_diabetic or diabetic).
C7_LifestyleIndependent ==
    (Recommended /\ rprev[2] # <<>>) =>
        /\ rrecs[1].lifestyle_changes = rprev[2][1].lifestyle_changes
        /\ rrecs[1].lifestyle_changes =
             When(RStatus("blood_pressure") \in {"elevated", "high"}, BpLifestyle)
             \o When(RStatus("blood_sugar") \in {"pre_diabetic", "diabetic"},
                     GlycemicLifestyle)

C7_Witness ==
    /\ Recommended /\ rprev[2] # <<>> /\ rprev[1] = "low" /\ rrisk = "high"
    /\ RStatus("blood_pressure") = "elevated" /\ RStatus("blood_sugar") = "diabetic"
    /\ Len(rrecs[1].lifestyle_changes) = 8

----------------------------------------------------------------------------
(* Properties of the service (Spec).                                        *)

ResultFields ==
    {"risk_level", "confidence", "vital_signs_analysis", "recommendations", "timestamp"}

\* C8, in every state: a call of predict_risk in which a step raised has
\* ended with the exception and no result, the handler has answered 500 and
\* no row of the table comes from that request; a result that is returned
\* has all its fields and comes from a call in which nothing raised.
C8_FailedCallState ==
    \A p \in Procs :
        /\ raised[p] # "" =>
              /\ pc[p] = "done"
              /\ ret[p].status = "error" /\ ret[p].value = <<>>
              /\ call[p].kind = "post" =>
                    /\ resp[p].code = 500
                    /\ \A r \in rows : r.call # call[p].id
        /\ ret[p].status = "ok" =>
              /\ raised[p] = ""
              /\ DOMAIN ret[p].value[1] = ResultFields
        /\ \A r \in rows : r.call = call[p].id => ret[p].status = "ok"

\* C8, in every step: a load that finds its file absent or half written, and
\* a transform given a value that is not a number, raise.
C8_FailingStepRaises ==
    \A p \in Procs :
        /\ (pc[p] = "load_model" /\ pc'[p] # pc[p] /\ modelFile.st # "complete")
              => (raised'[p] = "load_model" /\ ret'[p].status = "error")
        /\ (pc[p] = "load_scaler" /\ pc'[p] # pc[p] /\ scalerFile.st # "complete")
              => (raised'[p] = "load_scaler" /\ ret'[p].status = "error")
        /\ (pc[p] = "load_scaler" /\ pc'[p] # pc[p] /\ scalerFile.st = "complete"
                /\ Rejected(pdata[p]))
              => (raised'[p] = "transform" /\ ret'[p].status = "error")

\* C8: if any step of predict_risk fails the whole call fails: no partial
\* result, no default risk level, no row stored by the handler.
C8_WholeCallFails == []C8_FailedCallState /\ [][C8_FailingStepRaises]_vars

C8_Witness ==
    \E p, q \in Procs :
        /\ call[p].kind = "post" /\ raised[p] = "load_scaler" /\ resp[p].code = 500
        /\ ret[p].error = "EOFError"
        /\ call[q].kind = "direct" /\ raised[q] = "transform"
        /\ ret[q].status = "error" /\ rows = {}

\* the result without its timestamp
Verdict(r) ==
    <<r.risk_level, r.confidence, r.vital_signs_analysis, r.recommendations>>

\* C9, in every state: two returned calls with the same data and the same
\* loaded classifier and scaler have the same risk_level, confidence,
\* analysis and recommendations.
C9_SameVerdict ==
    \A p, q \in Procs :
        (/\ ret[p].status = "ok" /\ ret[q].status = "ok"
         /\ pdata[p] = pdata[q]
         /\ loaded[p].model.ds = loaded[q].model.ds
         /\ loaded[p].scaler.ds = loaded[q].scaler.ds)
            => Verdict(ret[p].value[1]) = Verdict(ret[q].value[1])

\* C9, in every step: a step of predict_risk changes neither its data nor
\* the two artifact files.
C9_NoSideEffect ==
    \A p \in Procs :
        (pc[p] \in {"load_model", "load_scaler"} /\ pc'[p] # pc[p])
            => (pdata'[p] = pdata[p] /\ modelFile' = modelFile /\ scalerFile' = scalerFile)

C10_NeverMixed ==
    \A p \in Procs :
        ret[p].status = "ok" => loaded[p].model.run = loaded[p].scaler.run

\* C10 amended, in every state: a returned call whose load_models met no
\* saving train_model call has used a classifier and a scaler of the same
\* run; once a train_model call has returned both files exist, and outside
\* a saving phase both are whole and of the same run.
C10_State ==
    /\ \A p \in Procs :
          (ret[p].status = "ok" /\ ~overlap[p])
              => loaded[p].model.run = loaded[p].scaler.run
    /\ nreturned > 0 =>
          /\ modelFile.st # "absent" /\ scalerFile.st # "absent"
          /\ ~Saving => /\ modelFile.st = "complete" /\ scalerFile.st = "complete"
                        /\ modelFile.run = scalerFile.run

\* C10 amended, in every step: after a train_model call has returned, a load
\* never finds its file missing, and a load outside a saving phase succeeds.
C10_Step ==
    \A p \in Procs :
        (nreturned > 0 /\ pc[p] \in {"load_model", "load_scaler"} /\ pc'[p] # pc[p])
            => /\ ret'[p].error # "FileNotFoundError"
               /\ ~Saving => raised'[p] \notin {"load_model", "load_scaler"}

\* C10 amended: the two files are replaced one after the other, the
\* classifier first; only calls of predict_risk that load outside the saving
\* phase of train_model are sure to use artifacts of one run.
C10_ReplacedFileByFile == []C10_State /\ [][C10_Step]_vars

C10_Witness ==
    \E p \in Procs :
        /\ ret[p].status = "ok" /\ ~overlap[p] /\ nreturned = 2
        /\ loaded[p].model.run = 2 /\ loaded[p].scaler.run = 2

\* C11 as stated, in every state: the table holds at most one row for each
\* pair (patient_id, record_id).
C11_AtMostOneRow ==
    \A r1, r2 \in rows :
        (r1.patient_id = r2.patient_id /\ r1.record_id = r2.record_id) => r1 = r2

\* C11, the part about a request that finds a stored prediction: it answers
\* with that prediction, calls no predict_risk and adds no row.
C11_ExistingReturned ==
    [][\A p \in Procs :
          (/\ pc[p] = "idle" /\ pc'[p] # "idle"
           /\ call'[p].kind = "post"
           /\ \E r \in rows : /\ r.patient_id = call'[p].patient_id
                              /\ r.record_id = call'[p].record_id)
             => /\ pc'[p] = "done" /\ resp'[p] = [code |-> 200, body |-> "existing"]
                /\ ret'[p].status = "none" /\ rows' = rows]_vars

\* a request has found the stored prediction of its record
C11_ExistingSeen ==
    \E p \in Procs : resp[p].body = "existing" /\ Cardinality(rows) = 1

====
